---- MODULE Spec2Model ----
(***************************************************************************)
(* Arbitrage execution core of Ucimindo/arbitrage-app.                     *)
(*                                                                         *)
(* The model follows POST /api/arbitrage/execute (server/routes.ts), the   *)
(* swap executor executeSwap / simulateSwap (server/price.ts) and the      *)
(* storage layer DatabaseStorage (server/storage.ts).                      *)
(*                                                                         *)
(* The server is a single-threaded event loop: a handler runs without      *)
(* interruption from one `await` to the next.  Every action below is one   *)
(* such run: it starts when the awaited promise settles and ends at the    *)
(* next await (or at the response).  pc[r] names the await a request is    *)
(* suspended on.                                                           *)
(*                                                                         *)
(* Amounts are fixed-point integers.  One tick is 0.001 of a token; the    *)
(* profit comparison is carried out in micro units (0.000001) because the  *)
(* fee estimate is a thousandth of a price.                                *)
(***************************************************************************)
EXTENDS Integers, Sequences, FiniteSets, TLC

\* ---------------------------------------------------------------------
\* Bounds of the model
\* ---------------------------------------------------------------------

\* Number of Execute requests that may be in flight together.
NumRequests == 2

Requests == 1..NumRequests

\* ---------------------------------------------------------------------
\* Fixed-point arithmetic
\* ---------------------------------------------------------------------

TicksPerUnit == 10 * 10 * 10

MicroPerTick == 10 * 10 * 10

MicroPerUnit == TicksPerUnit * MicroPerTick

Max(a, b) == IF a >= b THEN a ELSE b

\* Nearest multiple of m, halves away from zero (Number.prototype.toFixed).
RoundTo(x, m) ==
  IF x >= 0 THEN ((x + (m \div 2)) \div m) * m
            ELSE - ((((-x) + (m \div 2)) \div m) * m)

RECURSIVE Pow10(_)
Pow10(n) == IF n = 0 THEN 1 ELSE 10 * Pow10(n - 1)

\* x.toFixed(digits) on a tick amount: a value with three decimals is kept
\* by toFixed(8) and is rounded to the cent by toFixed(2).
ToFixed(x, digits) ==
  IF digits >= 3 THEN x ELSE RoundTo(x, Pow10(3 - digits))

\* ---------------------------------------------------------------------
\* Values
\* ---------------------------------------------------------------------

Dexes == {"pancake", "quickswap"}

Pairs == {"btc_usdt", "eth_usdt"}

\* A pair getBasePrice has no row for: both venues quote around 100.
AllPairs == Pairs \cup {"doge_usdt"}

ExecutionTypes == {"manual", "auto"}

\* tokenPair.split("_")[0]
BaseToken(tokenPair) ==
  CASE tokenPair = "btc_usdt" -> "btc"
    [] tokenPair = "eth_usdt" -> "eth"
    [] OTHER -> "other"

\* const tradingUnit = baseToken === 'btc' ? 1 : baseToken === 'eth' ? 10 : 100
TradingUnit(tokenPair) ==
  IF BaseToken(tokenPair) = "btc" THEN 1
  ELSE IF BaseToken(tokenPair) = "eth" THEN 10 ELSE 100

\* ---------------------------------------------------------------------
\* Profit and threshold arithmetic of the execute handler
\* ---------------------------------------------------------------------

\* const spread = priceB - priceA                                  (ticks)
Spread(priceA, priceB) == priceB - priceA

\* const feeEstimate = priceA * 0.001                              (micro)
FeeEstimate(priceA) == priceA

\* The spread less the fee, without the floor at zero.
EstimatedProfitUnclamped(priceA, priceB, tradingUnit) ==
  Spread(priceA, priceB) * tradingUnit * MicroPerTick - FeeEstimate(priceA)

\* Math.max(0, (spread * tradingUnit) - feeEstimate)               (micro)
EstimatedProfit(priceA, priceB, tradingUnit) ==
  Max(0, Spread(priceA, priceB) * tradingUnit * MicroPerTick - FeeEstimate(priceA))

\* const estimatedGasFee = 0.85 + 0.05                             (micro)
EstimatedGasFee == 850000 + 50000

\* getSetting(key)?.value || fallback: a setting is a list holding the
\* stored row's value, empty when the key has no row.
ValueOr(setting, fallback) == IF setting = << >> THEN fallback ELSE setting[1]

\* rawThreshold + estimatedGasFee, from the four values the handler read;
\* maxPositionSize and minProfitFixed are in whole units, minProfitPercent
\* in whole percent.                                               (micro)
MinProfit(thresholdMode, maxPositionSize, minProfitFixed, minProfitPercent) ==
  LET rawThreshold ==
        IF thresholdMode = <<"percent">>
          THEN (ValueOr(maxPositionSize, 1000) * ValueOr(minProfitPercent, 5)) * (MicroPerUnit \div 100)
          ELSE ValueOr(minProfitFixed, 50) * MicroPerUnit
  IN  rawThreshold + EstimatedGasFee

\* A gate that compares the profit with the raw threshold, leaving the gas
\* estimate out.
BelowThresholdWithoutGas(estimatedProfit, minProfit) ==
  estimatedProfit + EstimatedGasFee < minProfit

\* if (estimatedProfit < minProfit) return res.status(400)...
BelowThreshold(estimatedProfit, minProfit) == estimatedProfit < minProfit

\* ---------------------------------------------------------------------
\* Swap executor: parameters, results, error parsing
\* ---------------------------------------------------------------------

LegIds == {"A", "B"}

NoError == "undefined"

\* slippage is kept in thousandths of a percent (0.5 percent = 500).
SwapParamsA(tradingUnit) ==
  [signer |-> "signerA", routerAddress |-> "0x10ED43C7-bsc-router",
   tokenIn |-> "USDT-bsc", tokenOut |-> "BTCB-bsc",
   amountIn |-> tradingUnit, slippage |-> 500, chainId |-> 56]

SwapParamsB(tradingUnit) ==
  [signer |-> "signerB", routerAddress |-> "0xa5E0829C-polygon-router",
   tokenIn |-> "WBTC-polygon", tokenOut |-> "USDT-polygon",
   amountIn |-> tradingUnit, slippage |-> 500, chainId |-> 137]

NoParams ==
  [signer |-> "", routerAddress |-> "", tokenIn |-> "", tokenOut |-> "",
   amountIn |-> 0, slippage |-> 0, chainId |-> 0]

\* An error thrown inside executeSwap: whether it is an Error object, its
\* message, and which of the parsed words its lower-cased message contains.
Words == {"insufficient", "slippage", "deadline", "pair", "allowance"}

Thrown(isError, message, has) == [isError |-> isError, message |-> message, has |-> has]

MissingParamsError == Thrown(TRUE, "Missing required swap parameters", {})

SlippageRangeError == Thrown(TRUE, "Slippage must be between 0 and 100 percent", {"slippage"})

TransactionFailedError == Thrown(TRUE, "Transaction failed", {})

\* Errors the chain client can raise from a call or a wait.
ChainErrors ==
  { Thrown(TRUE, "ERC20: insufficient allowance", {"insufficient", "allowance"}),
    Thrown(TRUE, "execution reverted", {}),
    Thrown(FALSE, "", {}) }

\* The catch block of executeSwap.
ParseError(error) ==
  IF ~error.isError THEN "Unknown swap error"
  ELSE IF "insufficient" \in error.has THEN "Insufficient token balance or gas"
  ELSE IF "slippage" \in error.has THEN "Slippage tolerance exceeded"
  ELSE IF "deadline" \in error.has THEN "Transaction deadline exceeded"
  ELSE IF "pair" \in error.has THEN "Trading pair not found"
  ELSE IF "allowance" \in error.has THEN "Token allowance insufficient"
  ELSE error.message

\* A failed result that keeps the hash of the transaction it had sent.
FailedResultKeepingHash(errorMessage) ==
  [txHash |-> "0xsent", status |-> "failed", error |-> errorMessage]

FailedResult(errorMessage) ==
  [txHash |-> "", status |-> "failed", error |-> errorMessage]

SuccessResult(txHash) ==
  [txHash |-> txHash, status |-> "success", error |-> NoError]

NoResult == [txHash |-> "", status |-> "pending", error |-> NoError]

\* simulateSwap: the failure messages it draws from.
SimulatedErrors ==
  { "Insufficient gas fee", "Slippage tolerance exceeded", "Insufficient token balance",
    "Router contract error", "Network congestion" }

\* Amounts the router may quote for the swap (getAmountsOut).
ExpectedAmounts == {1999}

\* Whole basis points below 19 percent at which the double (100 - slippage)
\* * 100 falls just under the integer 10000 - bps (IEEE 754 binary64:
\* (100 - 18.15) * 100 is 8184.999999999999), in thousandths of a percent.
\* No whole basis point below 18.15 percent, nor 100 percent, does so.
RoundsBelow ==
  { 18150, 18180, 18210, 18260, 18400, 18430, 18460, 18510, 18650, 18680,
    18710, 18760, 18900, 18930, 18960 }

\* Math.floor((100 - slippage) * 100) as the double arithmetic yields it.
FloorPercentTimes100(slippage) ==
  ((100 * 1000 - slippage) \div 10) - (IF slippage \in RoundsBelow THEN 1 ELSE 0)

\* expectedAmountOut * BigInt(Math.floor((100 - slippage) * 100)) / BigInt(10000)
MinAmountOut(expectedAmountOut, slippage) ==
  (expectedAmountOut * FloorPercentTimes100(slippage)) \div 10000

\* process.env.NODE_ENV === 'development' &&
\*   (!process.env.PRIVATE_KEY_A || !process.env.PRIVATE_KEY_B)
IsDevelopmentMode(e) ==
  e.NODE_ENV = "development" /\ (~e.PRIVATE_KEY_A \/ ~e.PRIVATE_KEY_B)

\* ---------------------------------------------------------------------
\* One leg of an execution: the state of one executeSwap invocation
\* ---------------------------------------------------------------------

\* stage: the await the invocation is suspended on ("done" once the promise
\* has resolved); calls: the chain calls it has issued, in order;
\* currentAllowance: what the allowance read returned, once it has;
\* approvedAmount: the amount of the approval it submitted; caught: the
\* error its catch block received, if any.
Leg(stage, params, calls, minAmountOut, result) ==
  [stage |-> stage, params |-> params, calls |-> calls,
   minAmountOut |-> minAmountOut, result |-> result,
   currentAllowance |-> << >>, approvedAmount |-> 0, caught |-> << >>]

IdleLeg == Leg("idle", NoParams, << >>, 0, NoResult)

\* A catch block that submits a refused swap once more.
CaughtAndResubmitted(leg, error) ==
  IF leg.stage = "swap" /\ Len(leg.calls) < 8
    THEN [leg EXCEPT !.calls = Append(@, "swapExactTokensForTokens")]
    ELSE [leg EXCEPT !.stage = "done", !.result = FailedResult(ParseError(error)),
                     !.caught = <<error>>]

\* A catch block that throws the error on to the caller.
Rethrown(leg, error) == [leg EXCEPT !.stage = "rejected"]

\* catch (error) { ... return { txHash: "", status: "failed", error } }
Caught(leg, error) ==
  [leg EXCEPT !.stage = "done", !.result = FailedResult(ParseError(error)),
              !.caught = <<error>>]

\* executeSwap without the check of the slippage range.
ExecuteSwapWithoutRangeCheck(params, e) ==
  LET leg == Leg("idle", params, << >>, 0, NoResult) IN
  IF params.signer = "" \/ params.routerAddress = "" \/ params.tokenIn = ""
       \/ params.tokenOut = "" \/ params.amountIn = 0
    THEN Caught(leg, MissingParamsError)
  ELSE IF IsDevelopmentMode(e)
    THEN [leg EXCEPT !.stage = "simulate"]
  ELSE [leg EXCEPT !.stage = "allowance", !.calls = <<"allowance">>]

\* executeSwap up to its first await.
ExecuteSwap(params, e) ==
  LET leg == Leg("idle", params, << >>, 0, NoResult) IN
  IF params.signer = "" \/ params.routerAddress = "" \/ params.tokenIn = ""
       \/ params.tokenOut = "" \/ params.amountIn = 0
    THEN Caught(leg, MissingParamsError)
  ELSE IF params.slippage < 0 \/ params.slippage > 100 * 1000
    THEN Caught(leg, SlippageRangeError)
  ELSE IF IsDevelopmentMode(e)
    THEN [leg EXCEPT !.stage = "simulate"]
  ELSE [leg EXCEPT !.stage = "allowance", !.calls = <<"allowance">>]

\* Allowances the token may report for the router.
Allowances == {0, 10}

\* An executor that goes on to the quote whatever the allowance is.
AfterAllowanceWithoutApproval(leg, currentAllowance) ==
  [leg EXCEPT !.stage = "getAmountsOut", !.calls = Append(@, "getAmountsOut"),
              !.currentAllowance = <<currentAllowance>>]

\* await tokenInContract.allowance(...) returned: approve amountIn if it is
\* below amountIn.
AfterAllowance(leg, currentAllowance) ==
  IF currentAllowance < leg.params.amountIn
    THEN [leg EXCEPT !.stage = "approve", !.calls = Append(@, "approve"),
                     !.currentAllowance = <<currentAllowance>>,
                     !.approvedAmount = leg.params.amountIn]
    ELSE [leg EXCEPT !.stage = "getAmountsOut", !.calls = Append(@, "getAmountsOut"),
                     !.currentAllowance = <<currentAllowance>>]

\* await tokenInContract.approve(...) returned the transaction.
AfterApprove(leg) ==
  [leg EXCEPT !.stage = "approveWait", !.calls = Append(@, "approve.wait")]

\* await approveTx.wait() returned the receipt.
AfterApproveWait(leg) ==
  [leg EXCEPT !.stage = "getAmountsOut", !.calls = Append(@, "getAmountsOut")]

\* await routerContract.getAmountsOut(...) returned.
AfterGetAmountsOut(leg, expectedAmountOut) ==
  [leg EXCEPT !.stage = "swap", !.calls = Append(@, "swapExactTokensForTokens"),
              !.minAmountOut = MinAmountOut(expectedAmountOut, leg.params.slippage)]

\* await routerContract.swapExactTokensForTokens(...) returned the transaction.
AfterSwap(leg) ==
  [leg EXCEPT !.stage = "swapWait", !.calls = Append(@, "swap.wait")]

\* await swapTx.wait() returned the receipt.
AfterSwapWait(leg, receiptStatus) ==
  IF receiptStatus = 1
    THEN [leg EXCEPT !.stage = "done", !.result = SuccessResult("0xreceipt")]
    ELSE Caught(leg, TransactionFailedError)

\* The timer of simulateSwap fired.
AfterSimulate(leg, shouldFail, errorMessage) ==
  IF shouldFail
    THEN [leg EXCEPT !.stage = "done", !.result = FailedResult(errorMessage)]
    ELSE [leg EXCEPT !.stage = "done", !.result = SuccessResult("0xsimulated")]

ChainStages == {"allowance", "approve", "approveWait", "getAmountsOut", "swap", "swapWait"}

Terminal(leg) == leg.stage = "done"

Started(leg) == leg.stage # "idle"

\* ---------------------------------------------------------------------
\* State
\* ---------------------------------------------------------------------

VARIABLES
  env,           \* process.env: NODE_ENV and whether the private keys are set
  prices,        \* prices table: [pair][dex] -> prices, latest first
  settings,      \* settings table: key -> list holding the row's value
  wallets,       \* wallets table: [pair][dex] -> list holding the row
  arbitrageLog,  \* arbitrage_log table, in insertion order
  pc,            \* per request: the await the handler is suspended on
  req,           \* per request: the handler's local variables
  legs,          \* per request: its two executeSwap invocations
  response,      \* per request: what res.status(..).json(..) sent
  initialWallets, \* history: the wallets table before any request
  arbitrageStatus, \* per pair: the last answer of GET /api/arbitrage/status
  results,       \* the last answer of GET /api/scan/all
  calculations,  \* settings modal: what calculateMinProfitRequired returned
  sessionSettings, \* settings table: the rows the scanner grid reads
  settingsQuery, \* client: the cached data of the query ["/api/settings"]
  mounted,       \* scanner grid: the component is mounted
  isScanning,    \* scanner grid: useState isScanning
  remainingTime, \* scanner grid: useState remainingTime
  sessionStart,  \* scanner grid: sessionStart.current (seconds)
  autoExecCount, \* scanner grid: autoExecCount.current
  intervalRef,   \* scanner grid: intervalRef.current, a list holding the id
  countdownRef,  \* scanner grid: countdownRef.current, a list holding the id
  timers,        \* browser: the active setInterval timers
  nextTimerId,   \* browser: the id the next setInterval returns
  startsReloading, \* startScanning calls awaiting invalidateQueries
  startsDelaying, \* startScanning calls awaiting the 100 ms timeout
  scanMutation,  \* scanMutation: idle, or what its latest mutation awaits
  scansInFlight, \* GET /api/scan/all requests not yet answered
  executesInFlight, \* auto POST /api/arbitrage/execute requests not yet answered
  now,           \* Date.now() in seconds
  clicks,        \* history: clicks on the scanner toggle
  saves,         \* history: saves of the settings modal
  initiated,     \* history: auto-executions initiated since the session started
  loaded,        \* history: the settings startScanning found when it started
  used           \* history: the settings onSuccess last read while scanning

\* The scanner grid, its timers and its requests.
grid == <<sessionSettings, settingsQuery, mounted, isScanning, remainingTime,
          sessionStart, autoExecCount, intervalRef, countdownRef, timers,
          nextTimerId, startsReloading, startsDelaying, scanMutation,
          scansInFlight, executesInFlight, now, clicks, saves, initiated,
          loaded, used>>

\* What the read-only routes and the settings modal produced.
views == <<arbitrageStatus, results, calculations, grid>>

vars == <<env, prices, settings, wallets, arbitrageLog, pc, req, legs, response,
          initialWallets, arbitrageStatus, results, calculations, grid>>

\* The settings rows of a database no one has saved session settings to.
NoSessionSettings ==
  [autoExecute |-> << >>, scannerIntervalSec |-> << >>,
   sessionDurationSec |-> << >>, autoExecMaxPerSession |-> << >>]

\* The scanner grid after its first render, with the settings query loaded.
MountGrid(table) ==
  /\ sessionSettings = table
  /\ settingsQuery = table
  /\ mounted = TRUE
  /\ isScanning = FALSE
  /\ remainingTime = 0
  /\ sessionStart = 0
  /\ autoExecCount = 0
  /\ intervalRef = << >>
  /\ countdownRef = << >>
  /\ timers = {}
  /\ nextTimerId = 1
  /\ startsReloading = 0
  /\ startsDelaying = 0
  /\ scanMutation = "idle"
  /\ scansInFlight = 0
  /\ executesInFlight = 0
  /\ now = 0
  /\ clicks = 0
  /\ saves = 0
  /\ initiated = 0
  /\ loaded = << >>
  /\ used = << >>

StorageAwaits ==
  { "getPricesA", "getPricesB", "getThresholdMode", "getMaxPositionSize",
    "getMinProfitFixed", "getMinProfitPercent", "insertArbitrageLog",
    "getWalletA", "getWalletB", "updateWalletA", "updateWalletB" }

NoTx == [status |-> "", network |-> "", hash |-> ""]

NoErrors == [walletA |-> NoError, walletB |-> NoError]

\* res.status(status).json(body); fields are the keys of the JSON body.
Response(status, fields, message, txA, txB, totalProfit, errors) ==
  [status |-> status, fields |-> fields, message |-> message,
   txA |-> txA, txB |-> txB, totalProfit |-> totalProfit, errors |-> errors]

NoResponse == Response(0, {}, "", NoTx, NoTx, 0, NoErrors)

MessageResponse(status, message) ==
  Response(status, {"message"}, message, NoTx, NoTx, 0, NoErrors)

NoLocals ==
  [tokenPair |-> "", executionType |-> "", pancakePrices |-> << >>,
   quickswapPrices |-> << >>, thresholdMode |-> << >>, maxPositionSize |-> << >>,
   minProfitFixed |-> << >>, minProfitPercent |-> << >>,
   walletA |-> << >>, walletB |-> << >>,
   awaited |-> {}]

\* Locals the handler derives from what it read.
PriceA(r) == req[r].pancakePrices[1]

PriceB(r) == req[r].quickswapPrices[1]

ReqTradingUnit(r) == TradingUnit(req[r].tokenPair)

ReqEstimatedProfit(r) == EstimatedProfit(PriceA(r), PriceB(r), ReqTradingUnit(r))

ReqMinProfit(r) ==
  MinProfit(req[r].thresholdMode, req[r].maxPositionSize,
            req[r].minProfitFixed, req[r].minProfitPercent)

\* ---------------------------------------------------------------------
\* Initial states: tables as the running program can hold them
\* ---------------------------------------------------------------------

Environments ==
  { [NODE_ENV |-> "development", PRIVATE_KEY_A |-> FALSE, PRIVATE_KEY_B |-> FALSE],
    [NODE_ENV |-> "development", PRIVATE_KEY_A |-> TRUE,  PRIVATE_KEY_B |-> TRUE],
    [NODE_ENV |-> "production",  PRIVATE_KEY_A |-> FALSE, PRIVATE_KEY_B |-> TRUE] }

\* The price loop and GET /api/price/<dex>?pair=.. insert, per pair and
\* venue, the pair's base price moved by at most 0.05 percent (100 for a
\* pair without a base price row); a venue has no row before its first
\* insert.  Prices are in ticks, latest first.
PriceTables ==
  { [btc_usdt |-> [pancake |-> <<43125450>>, quickswap |-> <<43212770, 43200000>>],
     eth_usdt |-> [pancake |-> <<2456780>>,  quickswap |-> <<2467230>>],
     doge_usdt |-> [pancake |-> <<100040>>,  quickswap |-> <<99970>>]],
    [btc_usdt |-> [pancake |-> <<43110000>>, quickswap |-> <<43230010>>],
     eth_usdt |-> [pancake |-> << >>,        quickswap |-> <<2467230>>],
     doge_usdt |-> [pancake |-> <<99960>>,   quickswap |-> <<100050, 100000>>]],
    [btc_usdt |-> [pancake |-> <<43110000>>, quickswap |-> <<43203610>>],
     eth_usdt |-> [pancake |-> <<2457000>>,  quickswap |-> <<2466000>>],
     doge_usdt |-> [pancake |-> << >>,       quickswap |-> << >>]] }

\* The rows POST /api/init writes, rows changed through POST /api/settings,
\* and a database in which no settings row exists yet.
SettingsTables ==
  { [thresholdMode |-> <<"fixed">>, maxPositionSize |-> <<1000>>,
     minProfitFixed |-> <<50>>, minProfitPercent |-> <<5>>],
    [thresholdMode |-> <<"percent">>, maxPositionSize |-> <<1000>>,
     minProfitFixed |-> <<50>>, minProfitPercent |-> <<7>>],
    [thresholdMode |-> <<"fixed">>, maxPositionSize |-> <<1000>>,
     minProfitFixed |-> <<76>>, minProfitPercent |-> <<5>>],
    [thresholdMode |-> << >>, maxPositionSize |-> << >>,
     minProfitFixed |-> << >>, minProfitPercent |-> << >>] }

Wallet(id, baseBalance, quoteBalance) ==
  [id |-> id, baseBalance |-> baseBalance, quoteBalance |-> quoteBalance]

\* initializeWallets: a base balance by pair and a quote balance between
\* 1000 and 4000, both stored with eight decimals; or not yet run.
WalletTables ==
  { [btc_usdt |-> [pancake   |-> <<Wallet(1, 50, 1234567)>>,
                   quickswap |-> <<Wallet(2, 110, 2000000)>>],
     eth_usdt |-> [pancake   |-> <<Wallet(3, 1500, 1000004)>>,
                   quickswap |-> <<Wallet(4, 2100, 3999999)>>],
     doge_usdt |-> [pancake |-> << >>, quickswap |-> << >>]],
    [btc_usdt |-> [pancake |-> << >>, quickswap |-> << >>],
     eth_usdt |-> [pancake |-> << >>, quickswap |-> << >>],
     doge_usdt |-> [pancake |-> << >>, quickswap |-> << >>]] }

Init ==
  /\ env \in Environments
  /\ prices \in PriceTables
  /\ settings \in SettingsTables
  /\ wallets \in WalletTables
  /\ arbitrageLog = << >>
  /\ pc = [r \in Requests |-> "idle"]
  /\ req = [r \in Requests |-> NoLocals]
  /\ legs = [r \in Requests |-> [l \in LegIds |-> IdleLeg]]
  /\ response = [r \in Requests |-> NoResponse]
  /\ initialWallets = wallets
  /\ arbitrageStatus = [p \in AllPairs |-> << >>]
  /\ results = << >>
  /\ calculations = << >>
  /\ MountGrid(NoSessionSettings)

\* ---------------------------------------------------------------------
\* Storage (DatabaseStorage)
\* ---------------------------------------------------------------------

\* select ... order by timestamp desc limit 5
GetPricesByDex(dex, tokenPair) ==
  LET rows == prices[tokenPair][dex]
  IN  IF Len(rows) <= 5 THEN rows ELSE SubSeq(rows, 1, 5)

GetSetting(key) == settings[key]

GetWalletByDex(dex, tokenPair) == wallets[tokenPair][dex]

\* update wallets set baseBalance, quoteBalance where id = ...
UpdateWalletBalances(table, id, baseBalance, quoteBalance) ==
  [p \in DOMAIN table |->
    [d \in DOMAIN table[p] |->
      IF table[p][d] # << >> /\ table[p][d][1].id = id
        THEN <<Wallet(id, baseBalance, quoteBalance)>>
        ELSE table[p][d]]]

InsertArbitrageLog(table, logData) == Append(table, logData)

\* ---------------------------------------------------------------------
\* POST /api/arbitrage/execute
\* ---------------------------------------------------------------------

Goto(r, label) == pc' = [pc EXCEPT ![r] = label]

Respond(r, resp) ==
  /\ response' = [response EXCEPT ![r] = resp]
  /\ Goto(r, "done")

\* A check that answers 400 only when both lists are empty.
BothPriceListsEmpty(pancakePrices, quickswapPrices) ==
  Len(pancakePrices) = 0 /\ Len(quickswapPrices) = 0

\* if (pancakePrices.length === 0 || quickswapPrices.length === 0)
NoPriceData(pancakePrices, quickswapPrices) ==
  Len(pancakePrices) = 0 \/ Len(quickswapPrices) = 0

\* The request arrives; the handler runs to `await storage.getPricesByDex('pancake', ..)`.
BeginExecute(r, tokenPair, executionType) ==
  /\ pc[r] = "idle"
  /\ req' = [req EXCEPT ![r] = [NoLocals EXCEPT !.tokenPair = tokenPair,
                                                !.executionType = executionType]]
  /\ Goto(r, "getPricesA")
  /\ UNCHANGED <<views, initialWallets, env, prices, settings, wallets, arbitrageLog, legs, response>>

GetPricesAReturns(r) ==
  /\ pc[r] = "getPricesA"
  /\ req' = [req EXCEPT ![r].pancakePrices = GetPricesByDex("pancake", req[r].tokenPair),
                      ![r].awaited = @ \cup {"getPricesA"}]
  /\ Goto(r, "getPricesB")
  /\ UNCHANGED <<views, initialWallets, env, prices, settings, wallets, arbitrageLog, legs, response>>

\* Both price lists are in: answer 400 when one is empty, else go on to
\* read the settings.
GetPricesBReturns(r) ==
  /\ pc[r] = "getPricesB"
  /\ LET quickswapPrices == GetPricesByDex("quickswap", req[r].tokenPair) IN
     /\ req' = [req EXCEPT ![r].quickswapPrices = quickswapPrices,
                           ![r].awaited = @ \cup {"getPricesB"}]
     /\ IF NoPriceData(req[r].pancakePrices, quickswapPrices)
          THEN Respond(r, MessageResponse(400, "No price data available"))
          ELSE /\ Goto(r, "getThresholdMode")
               /\ UNCHANGED response
  /\ UNCHANGED <<views, initialWallets, env, prices, settings, wallets, arbitrageLog, legs>>

GetThresholdModeReturns(r) ==
  /\ pc[r] = "getThresholdMode"
  /\ req' = [req EXCEPT ![r].thresholdMode = GetSetting("thresholdMode"),
                      ![r].awaited = @ \cup {"getThresholdMode"}]
  /\ Goto(r, "getMaxPositionSize")
  /\ UNCHANGED <<views, initialWallets, env, prices, settings, wallets, arbitrageLog, legs, response>>

GetMaxPositionSizeReturns(r) ==
  /\ pc[r] = "getMaxPositionSize"
  /\ req' = [req EXCEPT ![r].maxPositionSize = GetSetting("maxPositionSize"),
                      ![r].awaited = @ \cup {"getMaxPositionSize"}]
  /\ Goto(r, "getMinProfitFixed")
  /\ UNCHANGED <<views, initialWallets, env, prices, settings, wallets, arbitrageLog, legs, response>>

GetMinProfitFixedReturns(r) ==
  /\ pc[r] = "getMinProfitFixed"
  /\ req' = [req EXCEPT ![r].minProfitFixed = GetSetting("minProfitFixed"),
                      ![r].awaited = @ \cup {"getMinProfitFixed"}]
  /\ Goto(r, "getMinProfitPercent")
  /\ UNCHANGED <<views, initialWallets, env, prices, settings, wallets, arbitrageLog, legs, response>>

\* The last setting is in: the threshold gate, then (getChainConfig knows
\* both chains) the two executeSwap calls handed to Promise.all.
GetMinProfitPercentReturns(r) ==
  /\ pc[r] = "getMinProfitPercent"
  /\ LET minProfitPercent == GetSetting("minProfitPercent")
         minProfit == MinProfit(req[r].thresholdMode, req[r].maxPositionSize,
                                req[r].minProfitFixed, minProfitPercent)
     IN
     /\ req' = [req EXCEPT ![r].minProfitPercent = minProfitPercent,
                           ![r].awaited = @ \cup {"getMinProfitPercent"}]
     /\ IF BelowThreshold(ReqEstimatedProfit(r), minProfit)
          THEN /\ Respond(r, MessageResponse(400, "Profit below minimum threshold"))
               /\ UNCHANGED legs
          ELSE /\ legs' = [legs EXCEPT ![r] =
                             [A |-> ExecuteSwap(SwapParamsA(ReqTradingUnit(r)), env),
                              B |-> ExecuteSwap(SwapParamsB(ReqTradingUnit(r)), env)]]
               /\ Goto(r, "legs")
               /\ UNCHANGED response
  /\ UNCHANGED <<views, initialWallets, env, prices, settings, wallets, arbitrageLog>>

\* --- the two legs, each advancing on its own ---

LegStep(r, l, leg) ==
  /\ legs' = [legs EXCEPT ![r][l] = leg]
  /\ UNCHANGED <<views, initialWallets, env, prices, settings, wallets, arbitrageLog, pc, req, response>>

AllowanceReturns(r, l) ==
  /\ legs[r][l].stage = "allowance"
  /\ \E currentAllowance \in Allowances :
       LegStep(r, l, AfterAllowance(legs[r][l], currentAllowance))

ApproveReturns(r, l) ==
  /\ legs[r][l].stage = "approve"
  /\ LegStep(r, l, AfterApprove(legs[r][l]))

ApproveWaitReturns(r, l) ==
  /\ legs[r][l].stage = "approveWait"
  /\ LegStep(r, l, AfterApproveWait(legs[r][l]))

GetAmountsOutReturns(r, l) ==
  /\ legs[r][l].stage = "getAmountsOut"
  /\ \E expectedAmountOut \in ExpectedAmounts :
       LegStep(r, l, AfterGetAmountsOut(legs[r][l], expectedAmountOut))

SwapReturns(r, l) ==
  /\ legs[r][l].stage = "swap"
  /\ LegStep(r, l, AfterSwap(legs[r][l]))

SwapWaitReturns(r, l) ==
  /\ legs[r][l].stage = "swapWait"
  /\ \E receiptStatus \in {0, 1} :
       LegStep(r, l, AfterSwapWait(legs[r][l], receiptStatus))

\* Any awaited chain call rejects.
ChainCallThrows(r, l) ==
  /\ legs[r][l].stage \in ChainStages
  /\ \E error \in ChainErrors : LegStep(r, l, Caught(legs[r][l], error))

SimulateTimerFires(r, l) ==
  /\ legs[r][l].stage = "simulate"
  /\ \/ LegStep(r, l, AfterSimulate(legs[r][l], FALSE, NoError))
     \/ \E errorMessage \in SimulatedErrors :
          LegStep(r, l, AfterSimulate(legs[r][l], TRUE, errorMessage))

\* --- after Promise.all ---

TxOf(result, network) ==
  [status |-> result.status, network |-> network, hash |-> result.txHash]

LogData(r, resultA, resultB) ==
  [tokenPair |-> req[r].tokenPair,
   priceA |-> PriceA(r), priceB |-> PriceB(r),
   spread |-> Spread(PriceA(r), PriceB(r)),
   estimatedProfit |-> ReqEstimatedProfit(r),
   executed |-> TRUE,
   executionType |-> req[r].executionType,
   walletA |-> "PancakeSwap", walletB |-> "QuickSwap",
   buyPrice |-> PriceA(r), sellPrice |-> PriceB(r),
   profit |-> ReqEstimatedProfit(r),
   txHash |-> <<resultA.txHash, resultB.txHash>>,
   request |-> r]

\* A check that looks at the first leg only.
FirstLegFailed(resultA, resultB) == resultA.status = "failed"

\* A check that gives up only when both legs failed.
BothLegsFailed(resultA, resultB) ==
  resultA.status = "failed" /\ resultB.status = "failed"

\* if (resultA.status === "failed" || resultB.status === "failed")
AnyLegFailed(resultA, resultB) ==
  resultA.status = "failed" \/ resultB.status = "failed"

\* A join that awaits leg A only.
FirstLegSettled(legA, legB) == Terminal(legA)

\* A join that resolves with the first leg to finish (Promise.race).
AnySettled(legA, legB) == Terminal(legA) \/ Terminal(legB)

\* Promise.all([executeSwap(..), executeSwap(..)]) resolves once both
\* promises have resolved (executeSwap never rejects).
AllSettled(legA, legB) == Terminal(legA) /\ Terminal(legB)

\* A failure answer that carries the message only.
BareFailureResponse(resultA, resultB) ==
  MessageResponse(500, "Failed to execute arbitrage")

\* res.status(500).json({ message, txA, txB, totalProfit: 0, errors })
FailureResponse(resultA, resultB) ==
  Response(500, {"message", "txA", "txB", "totalProfit", "errors"},
           "Failed to execute arbitrage",
           TxOf(resultA, "bsc"), TxOf(resultB, "polygon"), 0,
           [walletA |-> resultA.error, walletB |-> resultB.error])

\* Promise.all resolved: both results are in.  A failed leg ends the
\* request with the failure answer; otherwise the log row is inserted.
PromiseAllResolves(r) ==
  /\ pc[r] = "legs"
  /\ AllSettled(legs[r]["A"], legs[r]["B"])
  /\ LET resultA == legs[r]["A"].result
         resultB == legs[r]["B"].result
     IN  IF AnyLegFailed(resultA, resultB)
           THEN Respond(r, FailureResponse(resultA, resultB))
           ELSE /\ Goto(r, "insertArbitrageLog")
                /\ UNCHANGED response
  /\ UNCHANGED <<views, initialWallets, env, prices, settings, wallets, arbitrageLog, req, legs>>

InsertArbitrageLogReturns(r) ==
  /\ pc[r] = "insertArbitrageLog"
  /\ arbitrageLog' = InsertArbitrageLog(arbitrageLog,
                        LogData(r, legs[r]["A"].result, legs[r]["B"].result))
  /\ Goto(r, "getWalletA")
  /\ UNCHANGED <<views, initialWallets, env, prices, settings, wallets, req, legs, response>>

GetWalletAReturns(r) ==
  /\ pc[r] = "getWalletA"
  /\ req' = [req EXCEPT ![r].walletA = GetWalletByDex("pancake", req[r].tokenPair),
                        ![r].awaited = @ \cup {"getWalletA"}]
  /\ Goto(r, "getWalletB")
  /\ UNCHANGED <<views, initialWallets, env, prices, settings, wallets, arbitrageLog, legs, response>>

\* parseFloat(estimatedProfit.toFixed(2)), in micro units
TotalProfit(estimatedProfit) == RoundTo(estimatedProfit, 10 * MicroPerTick)

SuccessResponse(r) ==
  Response(200, {"txA", "txB", "totalProfit"}, "",
           TxOf(legs[r]["A"].result, "bsc"), TxOf(legs[r]["B"].result, "polygon"),
           TotalProfit(ReqEstimatedProfit(r)), NoErrors)

\* New balances from the rows the handler read (ticks).
NewBaseBalanceA(r) == ToFixed(req[r].walletA[1].baseBalance + ReqTradingUnit(r) * TicksPerUnit, 8)

NewQuoteBalanceA(r) == ToFixed(req[r].walletA[1].quoteBalance - PriceA(r) * ReqTradingUnit(r), 2)

NewBaseBalanceB(r) == ToFixed(req[r].walletB[1].baseBalance - ReqTradingUnit(r) * TicksPerUnit, 8)

NewQuoteBalanceB(r) == ToFixed(req[r].walletB[1].quoteBalance + PriceB(r) * ReqTradingUnit(r), 2)

\* Both rows are in: update them when both exist, else answer at once.
GetWalletBReturns(r) ==
  /\ pc[r] = "getWalletB"
  /\ LET walletB == GetWalletByDex("quickswap", req[r].tokenPair) IN
     /\ req' = [req EXCEPT ![r].walletB = walletB,
                           ![r].awaited = @ \cup {"getWalletB"}]
     /\ IF req[r].walletA # << >> /\ walletB # << >>
          THEN /\ Goto(r, "updateWalletA")
               /\ UNCHANGED response
          ELSE Respond(r, SuccessResponse(r))
  /\ UNCHANGED <<views, initialWallets, env, prices, settings, wallets, arbitrageLog, legs>>

UpdateWalletAReturns(r) ==
  /\ pc[r] = "updateWalletA"
  /\ wallets' = UpdateWalletBalances(wallets, req[r].walletA[1].id,
                                     NewBaseBalanceA(r), NewQuoteBalanceA(r))
  /\ Goto(r, "updateWalletB")
  /\ UNCHANGED <<views, initialWallets, env, prices, settings, arbitrageLog, req, legs, response>>

UpdateWalletBReturns(r) ==
  /\ pc[r] = "updateWalletB"
  /\ wallets' = UpdateWalletBalances(wallets, req[r].walletB[1].id,
                                     NewBaseBalanceB(r), NewQuoteBalanceB(r))
  /\ Respond(r, SuccessResponse(r))
  /\ UNCHANGED <<views, initialWallets, env, prices, settings, arbitrageLog, req, legs>>

\* An awaited storage call rejects: catch (error) { res.status(500).json({ message }) }
StorageThrows(r) ==
  /\ pc[r] \in StorageAwaits
  /\ Respond(r, MessageResponse(500, "Failed to execute arbitrage"))
  /\ UNCHANGED <<views, initialWallets, env, prices, settings, wallets, arbitrageLog, req, legs>>

\* The handler's own steps.
Handler(r) ==
  \/ \E tokenPair \in Pairs, executionType \in ExecutionTypes :
       BeginExecute(r, tokenPair, executionType)
  \/ GetPricesAReturns(r)
  \/ GetPricesBReturns(r)
  \/ GetThresholdModeReturns(r)
  \/ GetMaxPositionSizeReturns(r)
  \/ GetMinProfitFixedReturns(r)
  \/ GetMinProfitPercentReturns(r)
  \/ PromiseAllResolves(r)
  \/ InsertArbitrageLogReturns(r)
  \/ GetWalletAReturns(r)
  \/ GetWalletBReturns(r)
  \/ UpdateWalletAReturns(r)
  \/ UpdateWalletBReturns(r)
  \/ StorageThrows(r)

\* The steps of a leg that talks to its chain.
RealLeg(r, l) ==
  \/ AllowanceReturns(r, l)
  \/ ApproveReturns(r, l)
  \/ ApproveWaitReturns(r, l)
  \/ GetAmountsOutReturns(r, l)
  \/ SwapReturns(r, l)
  \/ SwapWaitReturns(r, l)
  \/ ChainCallThrows(r, l)

\* One Execute request, in every environment, its two legs interleaving
\* freely with each other and with nothing else.
FirstRequest == CHOOSE r \in Requests : \A q \in Requests : r <= q

Next ==
  \/ Handler(FirstRequest)
  \/ \E l \in LegIds : RealLeg(FirstRequest, l)
  \/ \E l \in LegIds : SimulateTimerFires(FirstRequest, l)

Spec == Init /\ [][Next]_vars

\* Several Execute requests in flight together on a development server
\* (no private keys: every leg is simulated) after POST /api/init has
\* created the wallets and the settings rows.
InitConcurrent ==
  /\ Init
  /\ IsDevelopmentMode(env)
  /\ \A p \in Pairs : \A d \in Dexes : wallets[p][d] # << >>
  /\ settings.thresholdMode # << >>

NextConcurrent ==
  \E r \in Requests :
    \/ Handler(r)
    \/ \E l \in LegIds : SimulateTimerFires(r, l)

SpecConcurrent == InitConcurrent /\ [][NextConcurrent]_vars

\* ---------------------------------------------------------------------
\* Read-only judgements: GET /api/arbitrage/status, GET /api/scan/all and
\* the settings modal
\* ---------------------------------------------------------------------

\* Everything but the views.
core == <<env, prices, settings, wallets, arbitrageLog, pc, req, legs, response,
          initialWallets>>

Abs(x) == IF x >= 0 THEN x ELSE -x

\* getBasePrice: the table's row, or 100 for a pair it does not list (ticks).
GetBasePrice(tokenPair, dex) ==
  CASE tokenPair = "btc_usdt" -> (IF dex = "pancake" THEN 43125450 ELSE 43212770)
    [] tokenPair = "eth_usdt" -> (IF dex = "pancake" THEN 2456780 ELSE 2467230)
    [] OTHER -> 100 * TicksPerUnit

\* const profitable = estimatedProfit > minProfit
Profitable(estimatedProfit, minProfit) == estimatedProfit > minProfit

\* The minimum profit from the settings table as a route reads it.
MinProfitOf(table) ==
  MinProfit(table.thresholdMode, table.maxPositionSize,
            table.minProfitFixed, table.minProfitPercent)

\* GET /api/arbitrage/status answers for a pair.
StatusOf(tokenPair) ==
  LET pancakePrices == GetPricesByDex("pancake", tokenPair)
      quickswapPrices == GetPricesByDex("quickswap", tokenPair)
  IN  IF NoPriceData(pancakePrices, quickswapPrices)
        THEN [spread |-> 0, drift |-> 0, estimatedProfit |-> 0,
              profitable |-> FALSE, priceA |-> 0, priceB |-> 0]
        ELSE LET priceA == pancakePrices[1]
                 priceB == quickswapPrices[1]
                 drift == IF Len(pancakePrices) > 1 THEN priceA - pancakePrices[2] ELSE 0
                 estimatedProfit == EstimatedProfit(priceA, priceB, TradingUnit(tokenPair))
                 minProfit == MinProfitOf([k \in DOMAIN settings |-> GetSetting(k)])
             IN  [spread |-> Spread(priceA, priceB), drift |-> drift,
                  estimatedProfit |-> RoundTo(estimatedProfit, 10 * MicroPerTick),
                  profitable |-> Profitable(estimatedProfit, minProfit),
                  priceA |-> priceA, priceB |-> priceB]

ArbitrageStatus(tokenPair) ==
  /\ arbitrageStatus' = [arbitrageStatus EXCEPT ![tokenPair] = <<StatusOf(tokenPair)>>]
  /\ UNCHANGED <<core, results, calculations, grid>>

\* Of the pairs GET /api/scan/all walks through, those the model follows.
ScanTokenPairs == Pairs

\* One entry of the scan: base prices, the absolute spread and 85 percent
\* of it as the estimated profit (micro).
ScanResult(pair) ==
  LET pancakePrice == GetBasePrice(pair, "pancake")
      quickswapPrice == GetBasePrice(pair, "quickswap")
      spread == Abs(pancakePrice - quickswapPrice)
      estimatedProfit == spread * 850
      minProfit == MinProfitOf([k \in DOMAIN settings |-> GetSetting(k)])
  IN  [pair |-> pair, priceA |-> pancakePrice, priceB |-> quickswapPrice,
       spread |-> spread, estimatedProfit |-> estimatedProfit,
       profitable |-> Profitable(estimatedProfit, minProfit)]

ScanAll ==
  /\ results' = <<[pair \in ScanTokenPairs |-> ScanResult(pair)]>>
  /\ UNCHANGED <<core, arbitrageStatus, calculations, grid>>

\* The modal's form, filled from GET /api/settings: settings.key || default.
FormData(table) ==
  [thresholdMode |-> ValueOr(table.thresholdMode, "fixed"),
   maxPositionSize |-> ValueOr(table.maxPositionSize, 1000),
   minProfitFixed |-> ValueOr(table.minProfitFixed, 50),
   minProfitPercent |-> ValueOr(table.minProfitPercent, 5)]

\* parseFloat(text) || fallback: zero counts as missing.
ParseFloatOr(value, fallback) == IF value = 0 THEN fallback ELSE value

\* calculateMinProfitRequired of the settings modal (micro).
CalculateMinProfitRequired(formData) ==
  LET maxPosition == ParseFloatOr(formData.maxPositionSize, 1000)
      fixedThreshold == ParseFloatOr(formData.minProfitFixed, 50)
      percentThreshold == ParseFloatOr(formData.minProfitPercent, 5)
      rawThreshold ==
        IF formData.thresholdMode = "percent"
          THEN (maxPosition * percentThreshold) * (MicroPerUnit \div 100)
          ELSE fixedThreshold * MicroPerUnit
  IN  [rawThreshold |-> RoundTo(rawThreshold, 10 * MicroPerTick),
       gasEstimate |-> RoundTo(EstimatedGasFee, 10 * MicroPerTick),
       netRequired |-> RoundTo(rawThreshold + EstimatedGasFee, 10 * MicroPerTick)]

\* The modal renders with the settings it loaded.
RenderSettingsModal ==
  /\ calculations' = <<CalculateMinProfitRequired(FormData(settings))>>
  /\ UNCHANGED <<core, arbitrageStatus, results, grid>>

\* Settings rows as POST /api/settings can leave them: any number the
\* form sends is stored, a key never sent has no row.
SettingsChoices ==
  [thresholdMode : {<< >>, <<"fixed">>, <<"percent">>},
   maxPositionSize : {<< >>, <<0>>, <<1520>>},
   minProfitFixed : {<< >>, <<-1>>, <<0>>, <<1>>, <<50>>, <<76>>},
   minProfitPercent : {<< >>, <<0>>, <<5>>, <<7>>}]

\* A development server with wallets, any settings, and a client that
\* asks for the status, the scan and an execution of the same pair.
InitJudgement ==
  /\ env \in {e \in Environments : IsDevelopmentMode(e)}
  /\ prices \in PriceTables
  /\ settings \in SettingsChoices
  /\ wallets \in {w \in WalletTables : \A p \in Pairs : \A d \in Dexes : w[p][d] # << >>}
  /\ arbitrageLog = << >>
  /\ pc = [r \in Requests |-> "idle"]
  /\ req = [r \in Requests |-> NoLocals]
  /\ legs = [r \in Requests |-> [l \in LegIds |-> IdleLeg]]
  /\ response = [r \in Requests |-> NoResponse]
  /\ initialWallets = wallets
  /\ arbitrageStatus = [p \in AllPairs |-> << >>]
  /\ results = << >>
  /\ calculations = << >>
  /\ MountGrid(NoSessionSettings)

\* The execute handler up to the point where it has rejected the request
\* or called executeSwap for both legs, next to the read-only routes.
NextJudgement ==
  \/ \E tokenPair \in AllPairs : BeginExecute(FirstRequest, tokenPair, "manual")
  \/ GetPricesAReturns(FirstRequest)
  \/ GetPricesBReturns(FirstRequest)
  \/ GetThresholdModeReturns(FirstRequest)
  \/ GetMaxPositionSizeReturns(FirstRequest)
  \/ GetMinProfitFixedReturns(FirstRequest)
  \/ GetMinProfitPercentReturns(FirstRequest)
  \/ \E tokenPair \in AllPairs : ArbitrageStatus(tokenPair)
  \/ ScanAll
  \/ RenderSettingsModal

SpecJudgement == InitJudgement /\ [][NextJudgement]_vars

\* ---------------------------------------------------------------------
\* executeSwap on its own, called with any parameters
\* ---------------------------------------------------------------------

\* Slippage values a caller may pass, in thousandths of a percent: below
\* the range, its ends, the handler's 0.5 percent, 18.15 percent, and
\* above the range.
Slippages == {-1, 0, 500, 18150, 100 * 1000, 100 * 1000 + 1}

\* Calls with and without an amount and an output token.
SwapRequests ==
  { [SwapParamsA(1) EXCEPT !.slippage = slippage, !.amountIn = amountIn,
                           !.tokenOut = tokenOut] :
      slippage \in Slippages, amountIn \in {0, 1}, tokenOut \in {"", "BTCB-bsc"} }

\* A caller invokes executeSwap(params); the invocation runs to its first
\* await or to its result.
CallExecuteSwap(r, l, params) ==
  /\ pc[r] = "idle"
  /\ legs[r][l].stage = "idle"
  /\ legs[r][l].params = NoParams
  /\ LegStep(r, l, ExecuteSwap(params, env))

\* The server before any request, in every environment.
InitSwap ==
  /\ Init
  /\ prices["doge_usdt"]["pancake"] = << >>
  /\ settings["thresholdMode"] = << >>
  /\ \A p \in AllPairs : \A d \in Dexes : wallets[p][d] = << >>

NextSwap ==
  \/ \E params \in SwapRequests : CallExecuteSwap(FirstRequest, "A", params)
  \/ RealLeg(FirstRequest, "A")
  \/ SimulateTimerFires(FirstRequest, "A")

SpecSwap == InitSwap /\ [][NextSwap]_vars

\* What the runtime brings about by itself: a request to the RPC node is
\* answered or fails within the client's request timeout, and a timer
\* fires.  wait() is called without a timeout and polls until the
\* transaction is mined, so nothing bounds ApproveWaitReturns and
\* SwapWaitReturns.
Responsive(r, l) ==
  \/ AllowanceReturns(r, l)
  \/ ApproveReturns(r, l)
  \/ GetAmountsOutReturns(r, l)
  \/ SwapReturns(r, l)
  \/ SimulateTimerFires(r, l)

\* One request whose handler steps and answered calls are never put off
\* forever.
SpecFair ==
  /\ Spec
  /\ WF_vars(Handler(FirstRequest))
  /\ \A l \in LegIds : WF_vars(Responsive(FirstRequest, l))

\* ---------------------------------------------------------------------
\* The scanner grid of the client: the start/stop toggle, its two interval
\* timers, the scan requests and the automatic executions of a session.
\* ---------------------------------------------------------------------
MaxTime == 3

MaxClicks == 2

MaxSaves == 1

\* Session settings as POST /api/settings can leave them: the interval in
\* seconds, the session duration in seconds, the number of executions.
SessionSettingsTables ==
  { [autoExecute |-> <<"true">>, scannerIntervalSec |-> <<1>>,
     sessionDurationSec |-> <<2>>, autoExecMaxPerSession |-> <<1>>],
    [autoExecute |-> <<"true">>, scannerIntervalSec |-> <<2>>,
     sessionDurationSec |-> <<3>>, autoExecMaxPerSession |-> <<2>>],
    [autoExecute |-> <<"false">>, scannerIntervalSec |-> <<61>>,
     sessionDurationSec |-> << >>, autoExecMaxPerSession |-> << >>] }

\* parseInt(row || fallback)
ParseIntOr(row, fallback) == IF row = << >> THEN fallback ELSE row[1]

\* setInterval(callback, period * 1000) called at time now, by a
\* startScanning whose interval is scannerIntervalSec.
Timer(id, kind, period, scannerIntervalSec) ==
  [id |-> id, kind |-> kind, period |-> period,
   scannerIntervalSec |-> scannerIntervalSec, due |-> now + period]

\* clearInterval of the timers the two refs hold.
ClearRefs == {t \in timers : <<t.id>> \notin {intervalRef, countdownRef}}

\* stopScanning: clears the timers of the two refs and empties the refs.
StopScanning ==
  /\ isScanning' = (IF mounted THEN FALSE ELSE isScanning)
  /\ remainingTime' = (IF mounted THEN 0 ELSE remainingTime)
  /\ timers' = ClearRefs
  /\ intervalRef' = << >>
  /\ countdownRef' = << >>

\* toggleScanning: a click stops a running scanner and otherwise calls
\* startScanning, which suspends at once on invalidateQueries.  The button
\* is disabled while scanMutation is pending.
ToggleScanning ==
  /\ mounted
  /\ scanMutation = "idle"
  /\ clicks < MaxClicks
  /\ clicks' = clicks + 1
  /\ IF isScanning
       THEN StopScanning /\ UNCHANGED startsReloading
       ELSE /\ startsReloading' = startsReloading + 1
            /\ UNCHANGED <<isScanning, remainingTime, timers, intervalRef, countdownRef>>
  /\ UNCHANGED <<core, scanMutation, saves, arbitrageStatus, results, calculations, sessionSettings,
                 settingsQuery, mounted, sessionStart, autoExecCount, nextTimerId,
                 startsDelaying, scansInFlight, executesInFlight, now, initiated,
                 loaded, used>>

\* startScanning resumes from invalidateQueries: the query of a mounted
\* observer has been fetched again.
StartSettingsReloaded ==
  /\ startsReloading > 0
  /\ startsReloading' = startsReloading - 1
  /\ startsDelaying' = startsDelaying + 1
  /\ settingsQuery' = (IF mounted THEN sessionSettings ELSE settingsQuery)
  /\ UNCHANGED <<core, scanMutation, saves, arbitrageStatus, results, calculations, sessionSettings,
                 mounted, isScanning, remainingTime, sessionStart, autoExecCount,
                 intervalRef, countdownRef, timers, nextTimerId, scansInFlight,
                 executesInFlight, now, clicks, initiated, loaded, used>>

\* startScanning resumes from the 100 ms timeout: it reads the interval,
\* returns if it is not within 1..60, and otherwise starts the session, the
\* first scan and the two timers.
StartDelayElapsed ==
  /\ startsDelaying > 0
  /\ startsDelaying' = startsDelaying - 1
  /\ LET currentSettings == settingsQuery
         scannerIntervalSec == ParseIntOr(currentSettings.scannerIntervalSec, 5)
     IN  IF scannerIntervalSec = 0 \/ scannerIntervalSec < 1 \/ scannerIntervalSec > 60
           THEN UNCHANGED <<isScanning, sessionStart, autoExecCount, scanMutation,
                            scansInFlight, remainingTime, countdownRef, intervalRef, timers,
                            nextTimerId, initiated, loaded, used>>
           ELSE /\ isScanning' = (IF mounted THEN TRUE ELSE isScanning)
                /\ sessionStart' = now
                /\ autoExecCount' = 0
                /\ scanMutation' = "fetching"
                /\ scansInFlight' = scansInFlight + 1
                /\ remainingTime' = (IF mounted THEN scannerIntervalSec ELSE remainingTime)
                /\ countdownRef' = <<nextTimerId>>
                /\ intervalRef' = <<nextTimerId + 1>>
                /\ timers' = timers \cup { Timer(nextTimerId, "countdown", 1, scannerIntervalSec),
                                           Timer(nextTimerId + 1, "scan", scannerIntervalSec,
                                                 scannerIntervalSec) }
                /\ nextTimerId' = nextTimerId + 2
                /\ initiated' = 0
                /\ loaded' = <<currentSettings>>
                /\ used' = << >>
  /\ UNCHANGED <<core, saves, arbitrageStatus, results, calculations, sessionSettings,
                 settingsQuery, mounted, startsReloading, executesInFlight, now,
                 clicks>>

\* The callback of the scan timer: scanMutation.mutate() and the countdown
\* reset to the interval the timer was created with.
ScanTimerFires(t) ==
  /\ t \in timers
  /\ t.kind = "scan"
  /\ t.due = now
  /\ scanMutation' = "fetching"
  /\ scansInFlight' = scansInFlight + 1
  /\ remainingTime' = (IF mounted THEN t.scannerIntervalSec ELSE remainingTime)
  /\ timers' = (timers \ {t}) \cup {[t EXCEPT !.due = now + t.period]}
  /\ UNCHANGED <<core, saves, arbitrageStatus, results, calculations, sessionSettings,
                 settingsQuery, mounted, isScanning, sessionStart, autoExecCount,
                 intervalRef, countdownRef, nextTimerId, startsReloading,
                 startsDelaying, executesInFlight, now, clicks, initiated, loaded,
                 used>>

\* The callback of the countdown timer, once a second.
CountdownFires(t) ==
  /\ t \in timers
  /\ t.kind = "countdown"
  /\ t.due = now
  /\ remainingTime' = (IF ~mounted THEN remainingTime
                       ELSE IF remainingTime <= 1 THEN t.scannerIntervalSec
                       ELSE remainingTime - 1)
  /\ timers' = (timers \ {t}) \cup {[t EXCEPT !.due = now + t.period]}
  /\ UNCHANGED <<core, scanMutation, saves, arbitrageStatus, results, calculations, sessionSettings,
                 settingsQuery, mounted, isScanning, sessionStart, autoExecCount,
                 intervalRef, countdownRef, nextTimerId, startsReloading,
                 startsDelaying, scansInFlight, executesInFlight, now, clicks,
                 initiated, loaded, used>>

\* Time passes once every timer that is due has run its callback.
Tick ==
  /\ now < MaxTime
  /\ \A t \in timers : t.due > now
  /\ now' = now + 1
  /\ UNCHANGED <<core, scanMutation, saves, arbitrageStatus, results, calculations, sessionSettings,
                 settingsQuery, mounted, isScanning, remainingTime, sessionStart,
                 autoExecCount, intervalRef, countdownRef, timers, nextTimerId,
                 startsReloading, startsDelaying, scansInFlight, executesInFlight,
                 clicks, initiated, loaded, used>>

\* Whether an answer can belong to the latest mutation of scanMutation
\* (latest) or to one that a later mutate() replaced.
Awaited(latest, awaits, inFlight) ==
  IF latest THEN scanMutation = awaits
  ELSE inFlight > (IF scanMutation = awaits THEN 1 ELSE 0)

\* GET /api/scan/all answers and onSuccess runs up to its await: when
\* auto-execution is on and the scanner runs, it stops the scanner if the
\* session is over or the count has reached the maximum, and otherwise
\* posts an execution for the first profitable pair.
ScanSucceeds(latest) ==
  /\ Awaited(latest, "fetching", scansInFlight)
  /\ scansInFlight' = scansInFlight - 1
  /\ LET data == [pair \in ScanTokenPairs |-> ScanResult(pair)]
         autoExecute == settingsQuery.autoExecute = <<"true">>
         sessionDurationSec == ParseIntOr(settingsQuery.sessionDurationSec, 600)
         autoExecMaxPerSession == ParseIntOr(settingsQuery.autoExecMaxPerSession, 5)
         sessionExpired == now - sessionStart > sessionDurationSec
         maxTradesReached == autoExecCount >= autoExecMaxPerSession
         profitablePairs == {pair \in ScanTokenPairs : data[pair].profitable}
     IN  /\ results' = <<data>>
         /\ used' = (IF isScanning
                       THEN <<[autoExecute |-> settingsQuery.autoExecute,
                               sessionDurationSec |-> sessionDurationSec,
                               autoExecMaxPerSession |-> autoExecMaxPerSession]>>
                       ELSE used)
         /\ IF autoExecute /\ isScanning
              THEN IF ~sessionExpired /\ ~maxTradesReached
                     THEN /\ IF profitablePairs # {} /\ autoExecCount < autoExecMaxPerSession
                               THEN /\ executesInFlight' = executesInFlight + 1
                                    /\ initiated' = initiated + 1
                                    /\ scanMutation' = (IF latest THEN "executing"
                                                        ELSE scanMutation)
                               ELSE /\ UNCHANGED <<executesInFlight, initiated>>
                                    /\ scanMutation' = (IF latest THEN "idle"
                                                        ELSE scanMutation)
                          /\ UNCHANGED <<isScanning, remainingTime, timers,
                                         intervalRef, countdownRef>>
                     ELSE /\ StopScanning
                          /\ UNCHANGED <<executesInFlight, initiated>>
                          /\ scanMutation' = (IF latest THEN "idle" ELSE scanMutation)
              ELSE /\ UNCHANGED <<executesInFlight, initiated, isScanning,
                                  remainingTime, timers, intervalRef, countdownRef>>
                   /\ scanMutation' = (IF latest THEN "idle" ELSE scanMutation)
  /\ UNCHANGED <<core, saves, arbitrageStatus, calculations, sessionSettings,
                 settingsQuery, mounted, sessionStart, autoExecCount, nextTimerId,
                 startsReloading, startsDelaying, now, clicks, loaded>>

\* GET /api/scan/all fails and onError stops a running scanner.
ScanFails(latest) ==
  /\ Awaited(latest, "fetching", scansInFlight)
  /\ scansInFlight' = scansInFlight - 1
  /\ scanMutation' = (IF latest THEN "idle" ELSE scanMutation)
  /\ IF isScanning
       THEN StopScanning
       ELSE UNCHANGED <<isScanning, remainingTime, timers, intervalRef, countdownRef>>
  /\ UNCHANGED <<core, saves, arbitrageStatus, results, calculations, sessionSettings,
                 settingsQuery, mounted, sessionStart, autoExecCount, nextTimerId,
                 startsReloading, startsDelaying, executesInFlight, now, clicks,
                 initiated, loaded, used>>

\* onSuccess resumes from executeArbitrage: an answer that is ok is
\* counted; for any other answer apiRequest throws and the catch block
\* only logs.
ExecuteReturns(ok, latest) ==
  /\ Awaited(latest, "executing", executesInFlight)
  /\ executesInFlight' = executesInFlight - 1
  /\ scanMutation' = (IF latest THEN "idle" ELSE scanMutation)
  /\ autoExecCount' = (IF ok THEN autoExecCount + 1 ELSE autoExecCount)
  /\ UNCHANGED <<core, saves, arbitrageStatus, results, calculations, sessionSettings,
                 settingsQuery, mounted, isScanning, remainingTime, sessionStart,
                 intervalRef, countdownRef, timers, nextTimerId, startsReloading,
                 startsDelaying, scansInFlight, now, clicks, initiated, loaded,
                 used>>

\* The settings modal saves: POST /api/settings stores the rows.
SaveSettings(table) ==
  /\ saves < MaxSaves
  /\ saves' = saves + 1
  /\ sessionSettings' = table
  /\ UNCHANGED <<core, scanMutation, arbitrageStatus, results, calculations, settingsQuery,
                 mounted, isScanning, remainingTime, sessionStart, autoExecCount,
                 intervalRef, countdownRef, timers, nextTimerId, startsReloading,
                 startsDelaying, scansInFlight, executesInFlight, now, clicks,
                 initiated, loaded, used>>

\* The modal's onSuccess invalidates ["/api/settings"]; the grid's query
\* fetches again and the grid renders with the new data.
SettingsRefetched ==
  /\ mounted
  /\ settingsQuery # sessionSettings
  /\ settingsQuery' = sessionSettings
  /\ UNCHANGED <<core, scanMutation, saves, arbitrageStatus, results, calculations, sessionSettings,
                 mounted, isScanning, remainingTime, sessionStart, autoExecCount,
                 intervalRef, countdownRef, timers, nextTimerId, startsReloading,
                 startsDelaying, scansInFlight, executesInFlight, now, clicks,
                 initiated, loaded, used>>

\* The cleanup of the mount effect: clears the timers of the two refs.
Unmount ==
  /\ mounted
  /\ mounted' = FALSE
  /\ timers' = ClearRefs
  /\ UNCHANGED <<core, scanMutation, saves, arbitrageStatus, results, calculations, sessionSettings,
                 settingsQuery, isScanning, remainingTime, sessionStart,
                 autoExecCount, intervalRef, countdownRef, nextTimerId,
                 startsReloading, startsDelaying, scansInFlight, executesInFlight,
                 now, clicks, initiated, loaded, used>>

\* A development server whose scan finds a profitable pair, and the grid
\* just mounted.
InitScanner ==
  /\ env \in {e \in Environments : e.NODE_ENV = "development" /\ ~e.PRIVATE_KEY_A}
  /\ prices \in {t \in PriceTables : t["doge_usdt"]["pancake"] = <<100040>>}
  /\ settings \in {t \in SettingsChoices :
                     /\ t.thresholdMode = <<"fixed">>
                     /\ t.maxPositionSize = << >>
                     /\ t.minProfitFixed = <<50>>
                     /\ t.minProfitPercent = << >>}
  /\ wallets \in {w \in WalletTables : \A p \in Pairs : \A d \in Dexes : w[p][d] # << >>}
  /\ arbitrageLog = << >>
  /\ pc = [r \in Requests |-> "idle"]
  /\ req = [r \in Requests |-> NoLocals]
  /\ legs = [r \in Requests |-> [l \in LegIds |-> IdleLeg]]
  /\ response = [r \in Requests |-> NoResponse]
  /\ initialWallets = wallets
  /\ arbitrageStatus = [p \in AllPairs |-> << >>]
  /\ results = << >>
  /\ calculations = << >>
  /\ \E table \in SessionSettingsTables : MountGrid(table)

NextScanner ==
  \/ ToggleScanning
  \/ StartSettingsReloaded
  \/ StartDelayElapsed
  \/ \E t \in timers : ScanTimerFires(t)
  \/ \E t \in timers : CountdownFires(t)
  \/ Tick
  \/ \E latest \in BOOLEAN : ScanSucceeds(latest)
  \/ \E latest \in BOOLEAN : ScanFails(latest)
  \/ \E ok, latest \in BOOLEAN : ExecuteReturns(ok, latest)
  \/ \E table \in SessionSettingsTables : SaveSettings(table)
  \/ SettingsRefetched
  \/ Unmount

SpecScanner == InitScanner /\ [][NextScanner]_vars

\* ---------------------------------------------------------------------
\* Properties
\* ---------------------------------------------------------------------

OtherLeg(l) == IF l = "A" THEN "B" ELSE "A"

\* The leg's promise has resolved with a result.
LegHasResult(r, l) == legs[r][l].result.status \in {"success", "failed"}

LegFailed(r, l) == legs[r][l].result.status = "failed"

LegSucceeded(r, l) == legs[r][l].result.status = "success"

\* The handler has evaluated the threshold gate.
GateEvaluated(r) == "getMinProfitPercent" \in req[r].awaited

\* The request was answered from the catch block of the handler.
AnsweredFromCatch(r) ==
  response[r] = MessageResponse(500, "Failed to execute arbitrage")

\* C1: a request whose estimated profit is below the minimum profit computed
\* from the settings it read is answered 400 "Profit below minimum
\* threshold", and neither executeSwap invocation is made: no leg leaves the
\* idle stage and no chain call is issued on either chain.
C1_BelowThresholdNeverExecutes ==
  \A r \in Requests :
    (GateEvaluated(r) /\ ReqEstimatedProfit(r) < ReqMinProfit(r))
      => /\ pc[r] = "done"
         /\ response[r] = MessageResponse(400, "Profit below minimum threshold")
         /\ \A l \in LegIds : legs[r][l].stage = "idle" /\ legs[r][l].calls = << >>

\* A positive profit that falls short of the minimum has been rejected.
C1_Witness ==
  \E r \in Requests :
    /\ GateEvaluated(r)
    /\ ReqEstimatedProfit(r) > 0
    /\ ReqEstimatedProfit(r) < ReqMinProfit(r)
    /\ response[r].status = 400

\* What C2 asks of every state: the two legs are started together, and the
\* handler is past the join only when both legs have their result.
C2_Joined ==
  \A r \in Requests :
    /\ (legs[r]["A"].stage # "idle") <=> (legs[r]["B"].stage # "idle")
    /\ (pc[r] \notin {"idle", "getPricesA", "getPricesB", "getThresholdMode",
                      "getMaxPositionSize", "getMinProfitFixed",
                      "getMinProfitPercent", "legs"}
          /\ legs[r]["A"].stage # "idle")
         => (LegHasResult(r, "A") /\ LegHasResult(r, "B"))

\* C2: both legs are started in the same step, the request is answered (or
\* moves past Promise.all) only when both legs have resolved to success or
\* failed, and the step in which one leg fails changes neither the other
\* leg nor the handler's position, whatever stage the other leg is at.
C2_BothLegsRunToCompletion ==
  [][ /\ C2_Joined
      /\ C2_Joined'
      /\ \A r \in Requests : \A l \in LegIds :
           (~LegFailed(r, l) /\ LegFailed(r, l)')
             => /\ legs'[r][OtherLeg(l)] = legs[r][OtherLeg(l)]
                /\ pc'[r] = pc[r]
                /\ response'[r] = response[r] ]_vars

\* Leg A has failed while leg B is still waiting for its swap receipt.
C2_Witness ==
  \E r \in Requests :
    /\ LegFailed(r, "A")
    /\ legs[r]["B"].stage = "swapWait"
    /\ pc[r] = "legs"

\* Number of log rows a request has inserted.
RecordsBy(r) ==
  Cardinality({i \in DOMAIN arbitrageLog : arbitrageLog[i].request = r})

\* C3: (as claimed) every request that passed the gate and whose two legs
\* have both finished, successfully or not, and that was answered outside
\* the catch block, has inserted exactly one log row.
C3_OneRecordPerAttempt ==
  \A r \in Requests :
    (pc[r] = "done" /\ LegHasResult(r, "A") /\ LegHasResult(r, "B")
       /\ ~AnsweredFromCatch(r))
      => RecordsBy(r) = 1

\* C4: every row of the log was inserted by a request whose two legs had
\* both resolved, and carries the transaction hash of leg A and of leg B,
\* neither of them empty.
C4_RecordsCarryBothResults ==
  \A i \in DOMAIN arbitrageLog :
    LET r == arbitrageLog[i].request IN
    /\ LegHasResult(r, "A") /\ LegHasResult(r, "B")
    /\ arbitrageLog[i].txHash =
         <<legs[r]["A"].result.txHash, legs[r]["B"].result.txHash>>
    /\ arbitrageLog[i].txHash[1] # "" /\ arbitrageLog[i].txHash[2] # ""

\* A row holding the receipts of two swaps made on the chains.
C4_Witness ==
  \E i \in DOMAIN arbitrageLog : arbitrageLog[i].txHash = <<"0xreceipt", "0xreceipt">>

WalletsInitialized(tokenPair) ==
  \A d \in Dexes : initialWallets[tokenPair][d] # << >>

\* C5: (as claimed) once a request is answered outside the catch block with
\* both legs resolved, the wallet of every successful leg differs from its
\* initial row by that leg's delta: the buy leg adds the trading unit to the
\* base balance and takes price x unit from the quote balance, the sell leg
\* the inverse, whatever the other leg did.
C5_SuccessfulLegAppliesDelta ==
  \A r \in Requests :
    (pc[r] = "done" /\ LegHasResult(r, "A") /\ LegHasResult(r, "B")
       /\ ~AnsweredFromCatch(r) /\ WalletsInitialized(req[r].tokenPair))
      => LET p == req[r].tokenPair
             unit == TradingUnit(p)
             a == wallets[p]["pancake"][1]
             a0 == initialWallets[p]["pancake"][1]
             b == wallets[p]["quickswap"][1]
             b0 == initialWallets[p]["quickswap"][1]
         IN  /\ LegSucceeded(r, "A") =>
                  /\ a.baseBalance = a0.baseBalance + unit * TicksPerUnit
                  /\ a.quoteBalance = a0.quoteBalance - PriceA(r) * unit
             /\ LegSucceeded(r, "B") =>
                  /\ b.baseBalance = b0.baseBalance - unit * TicksPerUnit
                  /\ b.quoteBalance = b0.quoteBalance + PriceB(r) * unit

\* The wallet row a leg trades on.
LegDex(l) == IF l = "A" THEN "pancake" ELSE "quickswap"

\* C6: at every moment, the wallet of a leg that has failed still holds the
\* base and quote balance it had before the request.
C6_FailedLegLeavesWallet ==
  \A r \in Requests : \A l \in LegIds :
    LegFailed(r, l)
      => wallets[req[r].tokenPair][LegDex(l)] = initialWallets[req[r].tokenPair][LegDex(l)]

\* A request with initialized wallets was answered after leg B failed and
\* leg A succeeded.
C6_Witness ==
  \E r \in Requests :
    /\ pc[r] = "done"
    /\ LegSucceeded(r, "A") /\ LegFailed(r, "B")
    /\ WalletsInitialized(req[r].tokenPair)

\* C7: the wallets table changes only in a step in which a request's
\* updateWalletBalances call returns, and at that point both legs of that
\* request are in their final stage with a result.
C7_WalletWrittenOnlyAfterJoin ==
  [][ wallets' # wallets
        => \E r \in Requests :
             /\ pc[r] \in {"updateWalletA", "updateWalletB"}
             /\ pc'[r] # pc[r]
             /\ \A l \in LegIds : legs[r][l].stage = "done" /\ LegHasResult(r, l) ]_vars

\* The wallets have been rewritten by a request that was answered 200.
C7_Witness ==
  /\ wallets # initialWallets
  /\ \E r \in Requests : pc[r] = "done" /\ response[r].status = 200

\* Requests for a pair that were answered 200.
Executed(tokenPair) ==
  {r \in Requests : pc[r] = "done" /\ response[r].status = 200
                      /\ req[r].tokenPair = tokenPair}

RECURSIVE SumOver(_, _)
SumOver(S, f) ==
  IF S = {} THEN 0
  ELSE LET x == CHOOSE y \in S : TRUE IN f[x] + SumOver(S \ {x}, f)

\* C8: (as claimed) when every request has been answered and two or more of
\* them executed the same pair with both legs successful, each wallet of
\* the pair holds its initial balance plus the deltas of all of them (the
\* quote balance compared to the cent, as the ledger stores it).
C8_NoLostUpdate ==
  \A p \in Pairs :
    ((\A r \in Requests : pc[r] = "done")
       /\ Cardinality(Executed(p)) >= 2 /\ WalletsInitialized(p))
      => LET n == Cardinality(Executed(p))
             unit == TradingUnit(p)
             spentA == SumOver(Executed(p), [r \in Requests |-> PriceA(r) * unit])
             gainedB == SumOver(Executed(p), [r \in Requests |-> PriceB(r) * unit])
             a == wallets[p]["pancake"][1]
             a0 == initialWallets[p]["pancake"][1]
             b == wallets[p]["quickswap"][1]
             b0 == initialWallets[p]["quickswap"][1]
         IN  /\ a.baseBalance = a0.baseBalance + n * unit * TicksPerUnit
             /\ a.quoteBalance = ToFixed(a0.quoteBalance - spentA, 2)
             /\ b.baseBalance = b0.baseBalance - n * unit * TicksPerUnit
             /\ b.quoteBalance = ToFixed(b0.quoteBalance + gainedB, 2)

\* The handler took one of its two early returns.
Rejected(r) ==
  \/ /\ "getPricesB" \in req[r].awaited
     /\ (Len(req[r].pancakePrices) = 0 \/ Len(req[r].quickswapPrices) = 0)
  \/ /\ GateEvaluated(r)
     /\ ReqEstimatedProfit(r) < ReqMinProfit(r)

\* C9: a request that finds no price for one venue, or whose profit is
\* below the threshold, is answered with status 400 and a message only,
\* and the wallets table and the log are as they were before it.
C9_RejectionLeavesNoTrace ==
  \A r \in Requests :
    Rejected(r)
      => /\ pc[r] = "done"
         /\ response[r].status = 400
         /\ response[r].fields = {"message"}
         /\ wallets = initialWallets
         /\ arbitrageLog = << >>

\* A request was turned away for lack of price data.
C9_Witness ==
  \E r \in Requests :
    /\ Rejected(r)
    /\ response[r] = MessageResponse(400, "No price data available")

\* C10: the answer to a request with a failed leg has the fields txA, txB
\* and errors; txA and txB hold the status of leg A and of leg B, and
\* errors holds, for each failed leg, that leg's non-empty error message.
C10_FailureAnswerIsPerLeg ==
  \A r \in Requests :
    (pc[r] = "done" /\ (LegFailed(r, "A") \/ LegFailed(r, "B")))
      => /\ {"txA", "txB", "errors"} \subseteq response[r].fields
         /\ response[r].txA.status = legs[r]["A"].result.status
         /\ response[r].txB.status = legs[r]["B"].result.status
         /\ LegFailed(r, "A") =>
              /\ response[r].errors.walletA = legs[r]["A"].result.error
              /\ response[r].errors.walletA \notin {NoError, ""}
         /\ LegFailed(r, "B") =>
              /\ response[r].errors.walletB = legs[r]["B"].result.error
              /\ response[r].errors.walletB \notin {NoError, ""}

\* An answer that reports leg A successful and leg B failed with the
\* message its chain call raised.
C10_Witness ==
  \E r \in Requests :
    /\ pc[r] = "done"
    /\ response[r].txA.status = "success"
    /\ response[r].txB.status = "failed"
    /\ response[r].errors.walletB = "execution reverted"

\* The execute handler let the request through the gate.
PassedGate(r) == GateEvaluated(r) /\ Started(legs[r]["A"])

\* C12: (as claimed) for a pair whose execution request has been through
\* the gate, the status route reports profitable exactly when the request
\* passed, and so does the scan when the stored prices are the base prices
\* it works from.
C12_ScanAgreesWithExecute ==
  \A r \in Requests :
    GateEvaluated(r)
      => LET p == req[r].tokenPair IN
         /\ arbitrageStatus[p] # << >>
              => (arbitrageStatus[p][1].profitable <=> PassedGate(r))
         /\ (/\ results # << >>
             /\ p \in ScanTokenPairs
             /\ PriceA(r) = GetBasePrice(p, "pancake")
             /\ PriceB(r) = GetBasePrice(p, "quickswap"))
              => (results[1][p].profitable <=> PassedGate(r))

\* Settings whose numeric rows are all present and not negative.
ValidSettings(table) ==
  /\ table.thresholdMode # << >>
  /\ \A k \in {"maxPositionSize", "minProfitFixed", "minProfitPercent"} :
       table[k] # << >> /\ table[k][1] >= 0

\* The same mode, and no numeric row smaller.
SettingsAtLeast(table, other) ==
  /\ other.thresholdMode = table.thresholdMode
  /\ \A k \in {"maxPositionSize", "minProfitFixed", "minProfitPercent"} :
       other[k][1] >= table[k][1]

\* C13: (as claimed) raising any of minProfitFixed, minProfitPercent and
\* maxPositionSize in valid settings never lowers the minimum profit,
\* neither the one the server computes nor the one the settings modal
\* shows.
C13_MinProfitMonotone ==
  ValidSettings(settings)
    => \A other \in SettingsChoices :
         (ValidSettings(other) /\ SettingsAtLeast(settings, other))
           => /\ MinProfitOf(settings) <= MinProfitOf(other)
              /\ calculations # << >>
                   => calculations[1].netRequired
                        <= CalculateMinProfitRequired(FormData(other)).netRequired

\* C14: the status route's estimated profit is the spread times the
\* trading unit less a thousandth of price A, or zero when that is
\* negative (reported to the cent); it is never negative, and the pair is
\* not reported profitable when it is below the minimum profit.  For
\* prices 43125.45 and 43212.77, unit 1 and a fixed threshold of 50 it
\* reports 44.19 against 50.90, not profitable.  The execute handler
\* computes the same profit.
C14_EstimatedProfitFormula ==
  \A p \in AllPairs :
    LET a == prices[p]["pancake"]
        b == prices[p]["quickswap"]
    IN  (a # << >> /\ b # << >>)
          => LET raw == (b[1] - a[1]) * TradingUnit(p) * 1000 - a[1]
                 estimatedProfit == IF raw > 0 THEN raw ELSE 0
             IN  /\ arbitrageStatus[p] # << >>
                      => /\ arbitrageStatus[p][1].estimatedProfit
                              = RoundTo(estimatedProfit, 10000)
                         /\ arbitrageStatus[p][1].estimatedProfit >= 0
                         /\ estimatedProfit < MinProfitOf(settings)
                              => ~arbitrageStatus[p][1].profitable
                         /\ (/\ a[1] = 43125450 /\ b[1] = 43212770
                             /\ TradingUnit(p) = 1
                             /\ settings.thresholdMode # <<"percent">>
                             /\ settings.minProfitFixed = <<50>>)
                              => /\ arbitrageStatus[p][1].estimatedProfit = 44190000
                                 /\ MinProfitOf(settings) = 50900000
                                 /\ ~arbitrageStatus[p][1].profitable
                 /\ \A r \in Requests :
                      (GateEvaluated(r) /\ req[r].tokenPair = p)
                        => /\ ReqEstimatedProfit(r) = estimatedProfit
                           /\ ReqEstimatedProfit(r) >= 0

\* The status of the pair at 43125.45 / 43212.77 under a fixed threshold
\* of 50: 44.19, not profitable.
C14_Witness ==
  /\ arbitrageStatus["btc_usdt"] # << >>
  /\ arbitrageStatus["btc_usdt"][1].priceA = 43125450
  /\ arbitrageStatus["btc_usdt"][1].priceB = 43212770
  /\ settings.thresholdMode = <<"fixed">>
  /\ settings.minProfitFixed = <<50>>
  /\ arbitrageStatus["btc_usdt"][1].estimatedProfit = 44190000
  /\ ~arbitrageStatus["btc_usdt"][1].profitable

\* C15: (as claimed) when the handler has called executeSwap, the buy leg
\* (leg A, on PancakeSwap) is on the venue with the lower price and the
\* sell leg (leg B, on QuickSwap) on the one with the higher price, both
\* with the pair's trading unit as amount.
C15_BuyOnCheaperVenue ==
  \A r \in Requests :
    PassedGate(r)
      => /\ PriceA(r) < PriceB(r)
         /\ legs[r]["A"].params.amountIn = ReqTradingUnit(r)
         /\ legs[r]["B"].params.amountIn = ReqTradingUnit(r)

\* executeSwap has been called for this leg.
Called(r, l) == legs[r][l].params # NoParams

\* C11: an executeSwap invocation is at every moment either not called,
\* suspended at one of its awaits without a result, or finished with a
\* result whose status is success or failed; it is never left rejected,
\* whatever stage a failure hits it at.
C11_NeverRejects ==
  \A r \in Requests : \A l \in LegIds :
    LET leg == legs[r][l] IN
    \/ leg.stage = "idle" /\ leg.result = NoResult
    \/ leg.stage \in ChainStages \cup {"simulate"} /\ leg.result = NoResult
    \/ leg.stage = "done" /\ leg.result.status \in {"success", "failed"}

\* A swap whose confirmation reported a failed transaction, and ended as
\* a failed result.
C11_Witness ==
  \E r \in Requests : \E l \in LegIds :
    /\ legs[r][l].stage = "done"
    /\ legs[r][l].calls # << >>
    /\ legs[r][l].calls[Len(legs[r][l].calls)] = "swap.wait"
    /\ legs[r][l].result = FailedResult("Transaction failed")

\* C16: every result of either strategy is a success with a hash and no
\* error, or a failure with an empty hash and an error.
C16_ResultShape ==
  \A r \in Requests : \A l \in LegIds :
    LET result == legs[r][l].result IN
    result # NoResult
      => \/ /\ result.status = "success"
            /\ result.txHash # ""
            /\ result.error = NoError
         \/ /\ result.status = "failed"
            /\ result.txHash = ""
            /\ result.error # NoError

\* A swap that failed after its transaction had been sent.
C16_Witness ==
  \E r \in Requests : \E l \in LegIds :
    /\ legs[r][l].result.status = "failed"
    /\ legs[r][l].stage = "done"
    /\ Len(legs[r][l].calls) > 0
    /\ legs[r][l].calls[Len(legs[r][l].calls)] = "swap.wait"
    /\ legs[r][l].result.error = "execution reverted"

\* The environment variable holding the private key of a leg's wallet.
KeyConfigured(l) == IF l = "A" THEN env.PRIVATE_KEY_A ELSE env.PRIVATE_KEY_B

\* C17: (as claimed) a leg whose wallet has no private key configured is
\* simulated and issues no chain call.
C17_NoKeyMeansSimulated ==
  \A r \in Requests : \A l \in LegIds :
    (Started(legs[r][l]) /\ ~KeyConfigured(l))
      => /\ legs[r][l].calls = << >>
         /\ legs[r][l].stage \in {"simulate", "done"}

OutOfRange(slippage) == slippage < 0 \/ slippage > 100 * 1000

ExecutionErrorMessages ==
  { "Insufficient token balance or gas", "Slippage tolerance exceeded",
    "Transaction deadline exceeded", "Trading pair not found",
    "Token allowance insufficient", "Unknown swap error" }

\* C19: (as claimed) a request that is complete but for a slippage out of
\* range is reported with an error of its own, none of the messages given
\* to errors of the execution.
C19_InvalidSlippageIsDistinct ==
  \A r \in Requests : \A l \in LegIds :
    LET params == legs[r][l].params IN
    (/\ Called(r, l) /\ OutOfRange(params.slippage)
     /\ params.amountIn # 0 /\ params.tokenOut # ""
     /\ legs[r][l].stage = "done")
      => legs[r][l].result.error \notin ExecutionErrorMessages

\* C20: (as claimed) the minimum amount handed to the router is the
\* quoted amount times (10000 - bps) over 10000, rounded down, for every
\* slippage of whole basis points in range, and never above the quote.
C20_MinAmountOutFormula ==
  \A r \in Requests : \A l \in LegIds :
    LET leg == legs[r][l] IN
    (Len(leg.calls) > 0 /\ \E i \in DOMAIN leg.calls : leg.calls[i] = "swapExactTokensForTokens")
      => \E expectedAmountOut \in ExpectedAmounts :
           LET slippageBps == leg.params.slippage \div 10 IN
           /\ leg.minAmountOut = (expectedAmountOut * (10000 - slippageBps)) \div 10000
           /\ leg.minAmountOut <= expectedAmountOut

\* C21: (as claimed) a leg that waits for the confirmation of its approval
\* or of its swap eventually finishes, as failed with a deadline error
\* when the confirmation does not come.
C21_WaitingLegTerminates ==
  \A r \in Requests : \A l \in LegIds :
    (legs[r][l].stage \in {"approveWait", "swapWait"}) ~> (legs[r][l].stage = "done")

\* The tokens of a pair on each chain.
QuoteTokenOn(chain) == IF chain = "bsc" THEN "USDT-bsc" ELSE "USDT-polygon"

BaseTokenOn(tokenPair, chain) ==
  CASE BaseToken(tokenPair) = "btc" -> (IF chain = "bsc" THEN "BTCB-bsc" ELSE "WBTC-polygon")
    [] BaseToken(tokenPair) = "eth" -> (IF chain = "bsc" THEN "ETH-bsc" ELSE "WETH-polygon")
    [] OTHER -> "none"

\* C22: (as claimed) every step of a session that initiates an automatic
\* execution leaves the number initiated in the session at or below
\* autoExecMaxPerSession and happens no later than sessionDurationSec after
\* the session started.
C22_SessionLimitsHold ==
  [][ initiated' > initiated
        => /\ initiated' <= ParseIntOr(settingsQuery.autoExecMaxPerSession, 5)
           /\ now - sessionStart <= ParseIntOr(settingsQuery.sessionDurationSec, 600) ]_vars

\* C23: (as claimed) what a running session reads when a scan answers are
\* the auto-execute flag, the session duration and the maximum that were
\* loaded when the session started, and its scan timer runs at the interval
\* loaded then.
C23_SessionKeepsLoadedSettings ==
  (isScanning /\ loaded # << >>)
    => /\ used # << >>
          => /\ used[1].autoExecute = loaded[1].autoExecute
             /\ used[1].sessionDurationSec = ParseIntOr(loaded[1].sessionDurationSec, 600)
             /\ used[1].autoExecMaxPerSession = ParseIntOr(loaded[1].autoExecMaxPerSession, 5)
       /\ \A t \in timers :
            <<t.id>> = intervalRef
              => t.period = ParseIntOr(loaded[1].scannerIntervalSec, 5)

\* C29: (as claimed) a step that stops the scanner or unmounts the grid
\* leaves no interval timer active.
C29_StopLeavesNoTimer ==
  [][ ((isScanning /\ ~isScanning') \/ (mounted /\ ~mounted')) => timers' = {} ]_vars

\* C24: (as claimed) the swap on PancakeSwap spends the quote token of the
\* requested pair for its base token, and the swap on QuickSwap spends the
\* base token of the requested pair for its quote token.
C24_TokensOfRequestedPair ==
  \A r \in Requests :
    PassedGate(r)
      => LET p == req[r].tokenPair IN
         /\ legs[r]["A"].params.tokenIn = QuoteTokenOn("bsc")
         /\ legs[r]["A"].params.tokenOut = BaseTokenOn(p, "bsc")
         /\ legs[r]["B"].params.tokenIn = BaseTokenOn(p, "polygon")
         /\ legs[r]["B"].params.tokenOut = QuoteTokenOn("polygon")

IsPrefix(s, t) == Len(s) <= Len(t) /\ SubSeq(t, 1, Len(s)) = s

OrderWithApproval ==
  <<"allowance", "approve", "approve.wait", "getAmountsOut",
    "swapExactTokensForTokens", "swap.wait">>

OrderWithoutApproval ==
  <<"allowance", "getAmountsOut", "swapExactTokensForTokens", "swap.wait">>

\* The chain call an invocation suspended at a stage is waiting for.
CallOfStage(stage) ==
  CASE stage = "approveWait" -> "approve.wait"
    [] stage = "swap" -> "swapExactTokensForTokens"
    [] stage = "swapWait" -> "swap.wait"
    [] OTHER -> stage

\* What C25 asks of a leg in one state.
C25_Ordered(leg) ==
  /\ IsPrefix(leg.calls, OrderWithApproval) \/ IsPrefix(leg.calls, OrderWithoutApproval)
  /\ leg.stage \in ChainStages
       => leg.calls # << >> /\ leg.calls[Len(leg.calls)] = CallOfStage(leg.stage)
  /\ leg.currentAllowance # << >>
       => /\ (Len(leg.calls) >= 2 /\ leg.calls[2] = "approve")
               <=> leg.currentAllowance[1] < leg.params.amountIn
          /\ leg.currentAllowance[1] < leg.params.amountIn
               => leg.approvedAmount >= leg.params.amountIn
  /\ leg.currentAllowance = << >> => Len(leg.calls) <= 1

\* C25: the chain calls of a leg are, in this order, the allowance read,
\* the approval and its confirmation exactly when the allowance read is
\* below amountIn (for amountIn), the quote, the swap and its
\* confirmation; a suspended leg waits for the call it issued last, and a
\* finished leg, failed or not, issues no further call.
C25_StagesInOrder ==
  [][ \A r \in Requests : \A l \in LegIds :
        /\ C25_Ordered(legs[r][l])
        /\ C25_Ordered(legs'[r][l])
        /\ (legs[r][l].caught = << >> /\ legs'[r][l].caught # << >>)
             => /\ legs'[r][l].stage = "done"
                /\ legs'[r][l].result.status = "failed"
                /\ legs'[r][l].calls = legs[r][l].calls
        /\ legs[r][l].stage = "done" => legs'[r][l] = legs[r][l] ]_vars

\* A swap that went through all six calls and succeeded.
C25_Witness ==
  \E r \in Requests : \E l \in LegIds :
    /\ legs[r][l].calls = OrderWithApproval
    /\ legs[r][l].result.status = "success"

\* C26: (as claimed) an error that reports an insufficient allowance is
\* classified as an allowance error.
C26_AllowanceErrorClassified ==
  \A r \in Requests : \A l \in LegIds :
    (legs[r][l].caught # << >>
       /\ {"insufficient", "allowance"} \subseteq legs[r][l].caught[1].has)
      => legs[r][l].result.error = "Token allowance insufficient"

\* C27: (as claimed) a failure of the simulated strategy carries one of
\* the messages the real strategy gives to its error kinds.
C27_SimulatedErrorsInVocabulary ==
  \A r \in Requests : \A l \in LegIds :
    (IsDevelopmentMode(env) /\ LegFailed(r, l) /\ legs[r][l].caught = << >>)
      => legs[r][l].result.error \in ExecutionErrorMessages

RECURSIVE Count(_, _)
Count(s, x) ==
  IF s = << >> THEN 0
  ELSE (IF Head(s) = x THEN 1 ELSE 0) + Count(Tail(s), x)

\* C28: an invocation submits the approval at most once and the swap at
\* most once, and a step in which the approval or the swap submission
\* fails ends it as failed with no further call.
C28_NoRetry ==
  [][ \A r \in Requests : \A l \in LegIds :
        /\ Count(legs'[r][l].calls, "approve") <= 1
        /\ Count(legs'[r][l].calls, "swapExactTokensForTokens") <= 1
        /\ (legs[r][l].stage \in {"approve", "swap"} /\ legs'[r][l].caught # << >>)
             => /\ legs'[r][l].stage = "done"
                /\ legs'[r][l].result.status = "failed"
                /\ legs'[r][l].calls = legs[r][l].calls
        /\ legs[r][l].stage = "done" => legs'[r][l].calls = legs[r][l].calls ]_vars

\* A swap whose submission was refused, ended as failed.
C28_Witness ==
  \E r \in Requests : \E l \in LegIds :
    /\ legs[r][l].stage = "done"
    /\ legs[r][l].caught # << >>
    /\ legs[r][l].calls # << >>
    /\ legs[r][l].calls[Len(legs[r][l].calls)] = "swapExactTokensForTokens"
    /\ legs[r][l].result.status = "failed"

\* C30: (as claimed) no wallet row ever holds a negative base or quote
\* balance.
C30_BalancesNeverNegative ==
  \A p \in AllPairs : \A d \in Dexes :
    wallets[p][d] # << >>
      => wallets[p][d][1].baseBalance >= 0 /\ wallets[p][d][1].quoteBalance >= 0

====
